---- MODULE Spec2Model ----
(***************************************************************************)
(* A model of the GitHub client of src/BRUH.py: GitHubAPI (the retry       *)
(* decorator, the rate limiter, make_request with its recursive resend and *)
(* pagination) and GitHubUserProcessor (the response cache and the fetch   *)
(* operations).                                                            *)
(*                                                                         *)
(* Time is counted in ticks of 0.1 s (min_request_interval is one tick).  *)
(* A Python call stack is a sequence of frames, one per activation of the  *)
(* decorated make_request; the last element is the running activation.     *)
(***************************************************************************)
EXTENDS Integers, Sequences, FiniteSets, TLC

\* ------------------------------------------------------------ constants
OneSecond == 10
MinRequestInterval == 1
SafetyBuffer == 5
MaxRetries == 3
RetryDelay == 10
Backoff == 2
DefaultRemaining == 5000
DefaultLimit == 5000

\* ------------------------------------------------------------ bounds
NumUrls == 3
MaxOps == 3
MaxPageLen == 2
MaxNetCalls == 3
StartTime == 20
MaxTime == 45
MaxJitter == 1
MaxNetDelay == 1
MaxRepos == 2
MaxEvents == 3
MaxCancelOps == 2
MaxRetriesArg == 3

Callers == {1, 2}
Urls == 1..NumUrls
NoLink == 0
Absent == -1

Max(a, b) == IF a >= b THEN a ELSE b

\* ------------------------------------------------------------ values
\* A Python value: None, a JSON list of items, a JSON object (items stands for
\* its keys, content for the state of its 'content' field: "absent", "text"
\* when it decodes, "garbled" when base64 or UTF-8 decoding fails) or a string.
None == [kind |-> "none", items |-> <<>>, content |-> "absent"]
JsonList(s) == [kind |-> "list", items |-> s, content |-> "absent"]
JsonDict(s, content) == [kind |-> "dict", items |-> s, content |-> content]
Str(text) == [kind |-> "str", items |-> <<>>, content |-> text]
\* Python truthiness of such a value (None, [], {} and '' are false).
Truthy(v) ==
  CASE v.kind = "none" -> FALSE
    [] v.kind = "str" -> v.content # ""
    [] OTHER -> Len(v.items) > 0

\* The n items the server holds on the page at url u (distinct across pages).
PageItems(u, n) == [i \in 1..n |-> (u - 1) * (MaxPageLen + 1) + i]

\* ------------------------------------------------------------ the server
\* One answer to session.get: an exception of requests ("timeout", "connerr")
\* or a response with a status, a body and headers.
\*   rl    the body text contains 'rate limit'
\*   kind  the body: "list" or "dict" of n items, or "bad" (not JSON)
\*   next  the url of the rel="next" link, NoLink when there is none
\*   hdr   the X-RateLimit-* headers, Absent when a header is missing
NoHdr == [remaining |-> Absent, reset |-> Absent, limit |-> Absent, used |-> Absent]
ExhaustedHdr == [remaining |-> 0, reset |-> StartTime + 5, limit |-> Absent, used |-> Absent]
Answer(st, rl, kind, n, next, hdr) ==
  [st |-> st, rl |-> rl, kind |-> kind, n |-> n, content |-> "absent", next |-> next, hdr |-> hdr]

NetFailures == { Answer(st, FALSE, "bad", 0, NoLink, NoHdr) : st \in {"timeout", "connerr"} }
ErrorAnswers == { Answer(st, FALSE, "dict", 1, NoLink, NoHdr) : st \in {"404", "403", "400", "500"} }
RateLimitAnswers == { Answer("403", TRUE, "dict", 1, NoLink, h) : h \in {NoHdr, ExhaustedHdr} }
ListAnswers == { Answer("200", FALSE, "list", n, nx, NoHdr) : n \in 0..MaxPageLen, nx \in {NoLink} \cup Urls }
ObjectAnswers == { Answer("200", FALSE, "dict", 1, NoLink, NoHdr) }
BadJsonAnswers == { Answer("200", FALSE, "bad", 0, nx, NoHdr) : nx \in {NoLink, 1} }

\* What the surroundings may do in one specification: the server's answers,
\* the duration of a network call and the overshoot of a sleep, in ticks,
\* and the network calls one operation may make.
AnyAnswer ==
  NetFailures \cup ErrorAnswers \cup RateLimitAnswers \cup ListAnswers
    \cup ObjectAnswers \cup BadJsonAnswers
TransportEnv ==
  [ answers |-> [u \in Urls |-> AnyAnswer],
    netdelay |-> {0},
    jitter |-> {0},
    maxcalls |-> MaxNetCalls ]

\* Answers that carry rate-limit headers: a remaining budget around the
\* safety buffer and a reset time before or after the start.
HdrRemaining == {Absent, 3, SafetyBuffer, SafetyBuffer + 1}
HdrResets == {Absent, StartTime + 8, StartTime + 16}
RateHeaders ==
  { [remaining |-> r, reset |-> t, limit |-> Absent, used |-> Absent] :
      r \in HdrRemaining, t \in HdrResets }
RateEnv ==
  [ answers |-> [u \in Urls |->
                  { Answer(st, FALSE, "dict", 1, NoLink, h) : st \in {"200", "404"}, h \in RateHeaders }
                    \cup { Answer("timeout", FALSE, "bad", 0, NoLink, NoHdr) }],
    netdelay |-> 0..MaxNetDelay,
    jitter |-> 0..MaxJitter,
    maxcalls |-> MaxNetCalls ]

\* ------------------------------------------------------------ state
VARIABLES
  now,                \* time.time()
  rate_limit,         \* GitHubAPI.rate_limit
  last_request_time,  \* GitHubAPI.last_request_time
  net,                \* the times at which the last session.get was called and ended
  stack,              \* per caller: the activations of make_request
  sig,                \* per caller: running, or a return value / exception in flight
  netlog,             \* per caller: the answers to the network calls of the current operation
  sleeps,             \* per caller: the sleeps of the current operation, by kind
  cache,              \* GitHubUserProcessor._cache
  lru,                \* the lru_cache of get_user_info
  proc,               \* per caller: the processor operation in progress
  hist,               \* per caller: the last two processor operations that ended
  gcf,                \* per caller: the last two _get_cached_or_fetch calls that ended
  called,             \* the operations begun since the last clear_cache
  nops,               \* the number of processor operations begun
  fcall               \* the call of find_best_repo or analyze_activity: arguments and outcome

procVars == <<cache, lru, proc, hist, gcf, called, nops, fcall>>
vars == <<now, rate_limit, last_request_time, net, stack, sig, netlog, sleeps,
          cache, lru, proc, hist, gcf, called, nops, fcall>>

RateLimitInfo == [remaining |-> DefaultRemaining, reset |-> 0, used |-> 0, limit |-> DefaultLimit]

Idle == [t |-> "idle", v |-> None]
Running == [t |-> "run", v |-> None]
Returned(v) == [t |-> "ret", v |-> v]
Raised == [t |-> "exc", v |-> None]
NoCalls == [start |-> Absent, end |-> Absent]
NoSleeps == [interval |-> 0, budget |-> 0, ratelimit |-> 0, backoff |-> 0]

EmptyMap == [k \in {} |-> None]
Put(m, k, v) == [x \in DOMAIN m \cup {k} |-> IF x = k THEN v ELSE m[x]]

\* No operation; an operation of the processor with its arguments.
NoProc == [op |-> "none", user |-> <<>>, repo |-> "", months |-> "", idx |-> 0, first |-> FALSE]
\* The record of an operation that ended: its value (or that it raised), the
\* network calls it made, whether it ended absent on a failed request, and
\* whether it was the first of its kind and arguments after a clear_cache.
NoOp ==
  [op |-> "none", user |-> <<>>, repo |-> "", months |-> "", v |-> None, raised |-> FALSE,
   calls |-> 0, failed |-> FALSE, first |-> FALSE]
NoGcf == [key |-> <<>>, v |-> None, fetched |-> FALSE]
Push(h, r) == [prev |-> h.last, last |-> r]

\* No call of find_best_repo or analyze_activity.
NoFcall == [fn |-> "none", args |-> <<>>, username |-> "", out |-> [t |-> "none"]]

\* A fresh GitHubUserProcessor with its GitHubAPI.
NewProcessor ==
  /\ now = StartTime
  /\ rate_limit = RateLimitInfo
  /\ last_request_time = 0
  /\ net = NoCalls
  /\ stack = [c \in Callers |-> <<>>]
  /\ sig = [c \in Callers |-> Idle]
  /\ netlog = [c \in Callers |-> <<>>]
  /\ sleeps = [c \in Callers |-> NoSleeps]
  /\ cache = EmptyMap
  /\ lru = EmptyMap
  /\ proc = [c \in Callers |-> NoProc]
  /\ hist = [c \in Callers |-> [prev |-> NoOp, last |-> NoOp]]
  /\ gcf = [c \in Callers |-> [prev |-> NoGcf, last |-> NoGcf]]
  /\ called = [cleared |-> FALSE, sigs |-> {}]
  /\ nops = 0

Init == NewProcessor /\ fcall = NoFcall

\* ------------------------------------------------------------ frames
\* An activation of the decorated make_request: the wrapper's locals
\* (retries, current_delay), the function's (url, current_time and wait_time
\* of _check_rate_limit, the page body held across the recursive call) and
\* the time at which the time.sleep it is in may return; checked tells that
\* _check_rate_limit was called since the activation's last session.get.
Frame(u) ==
  [url |-> u, retries |-> 0, current_delay |-> RetryDelay, pc |-> "check",
   current_time |-> 0, budget_wait |-> 0, wake |-> 0, body |-> <<>>,
   checked |-> FALSE]

Top(c) == stack[c][Len(stack[c])]
Pop(s) == SubSeq(s, 1, Len(s) - 1)
SetTop(s, f) == [s EXCEPT ![Len(s)] = f]
At(c, pc) == stack[c] # <<>> /\ sig[c].t = "run" /\ Top(c).pc = pc

\* return v from the running activation
DoReturn(s, v) == [stack |-> Pop(s), sig |-> Returned(v)]

\* An exception leaves the function and reaches the wrapper of retry.
WrapperExcept(s, t) ==
  LET f == s[Len(s)]
      r == f.retries + 1
  IN IF r >= MaxRetries
       THEN [stack |-> Pop(s), sig |-> Raised]
       ELSE [stack |-> SetTop(s, [f EXCEPT !.retries = r, !.pc = "backoff_sleep",
                                            !.wake = t + f.current_delay,
                                            !.current_delay = f.current_delay * Backoff]),
             sig |-> Running]

\* ------------------------------------------------------------ GitHubAPI
\* A handler that starts from a fresh RateLimitInfo at each response.
HandleRateLimitFresh(rl, hdr) ==
  [remaining |-> IF hdr.remaining # Absent THEN hdr.remaining ELSE DefaultRemaining,
   reset     |-> IF hdr.reset # Absent THEN hdr.reset ELSE 0,
   limit     |-> IF hdr.limit # Absent THEN hdr.limit ELSE DefaultLimit,
   used      |-> IF hdr.used # Absent THEN hdr.used ELSE 0]

\* _handle_rate_limit: a header that is present replaces its field.
HandleRateLimit(rl, hdr) ==
  [remaining |-> IF hdr.remaining # Absent THEN hdr.remaining ELSE rl.remaining,
   reset     |-> IF hdr.reset # Absent THEN hdr.reset ELSE rl.reset,
   limit     |-> IF hdr.limit # Absent THEN hdr.limit ELSE rl.limit,
   used      |-> IF hdr.used # Absent THEN hdr.used ELSE rl.used]

\* A caller invokes the decorated make_request(url): the wrapper starts with
\* retries = 0 and current_delay = delay and calls the function.
StartCall(c, u) ==
  /\ stack' = [stack EXCEPT ![c] = <<Frame(u)>>]
  /\ sig' = [sig EXCEPT ![c] = Running]
  /\ UNCHANGED <<now, rate_limit, last_request_time, net>>

\* The logs of a caller start afresh with each operation it begins.
ResetLogs(c) ==
  /\ netlog' = [netlog EXCEPT ![c] = <<>>]
  /\ sleeps' = [sleeps EXCEPT ![c] = NoSleeps]

\* A first make_request on the API object.
ApiCall(c, u) ==
  /\ stack[c] = <<>>
  /\ sig[c].t = "idle"
  /\ StartCall(c, u)
  /\ ResetLogs(c)
  /\ UNCHANGED procVars

\* _check_rate_limit, first half: read the clock, keep the minimum interval.
CheckRateLimit(c) ==
  /\ At(c, "check")
  /\ LET f == Top(c)
         time_since_last_request == now - last_request_time
     IN IF time_since_last_request < MinRequestInterval
          THEN /\ stack' = [stack EXCEPT ![c] = SetTop(@,
                     [f EXCEPT !.current_time = now, !.pc = "interval_sleep", !.checked = TRUE,
                               !.wake = now + (MinRequestInterval - time_since_last_request)])]
               /\ sleeps' = [sleeps EXCEPT ![c].interval = @ + 1]
          ELSE /\ stack' = [stack EXCEPT ![c] = SetTop(@,
                     [f EXCEPT !.current_time = now, !.pc = "budget", !.checked = TRUE])]
               /\ UNCHANGED sleeps
  /\ UNCHANGED <<now, rate_limit, last_request_time, net, sig, netlog>>
  /\ UNCHANGED procVars

\* A test that does not count the buffer value itself as low (remaining < 5).
BudgetLowStrict(rl) == rl.remaining < SafetyBuffer

\* The remaining-budget test of _check_rate_limit.
BudgetLow(rl) == rl.remaining <= SafetyBuffer

\* _check_rate_limit, second half: wait for the reset when the budget is low.
CheckBudget(c) ==
  /\ At(c, "budget")
  /\ LET f == Top(c)
         wait_time == Max(rate_limit.reset - f.current_time, 0) + OneSecond
     IN IF BudgetLow(rate_limit) /\ wait_time > 0
          THEN /\ stack' = [stack EXCEPT ![c] = SetTop(@,
                     [f EXCEPT !.pc = "budget_sleep", !.budget_wait = wait_time,
                               !.wake = now + wait_time])]
               /\ sleeps' = [sleeps EXCEPT ![c].budget = @ + 1]
          ELSE /\ stack' = [stack EXCEPT ![c] = SetTop(@, [f EXCEPT !.pc = "send", !.budget_wait = 0])]
               /\ UNCHANGED sleeps
  /\ UNCHANGED <<now, rate_limit, last_request_time, net, sig, netlog>>
  /\ UNCHANGED procVars

\* A wrapper whose retry goes on at session.get.
AfterSleepSkipCheck(pc) ==
  CASE pc = "interval_sleep" -> "budget"
    [] pc = "budget_sleep" -> "send"
    [] pc = "ratelimit_sleep" -> "resend"
    [] pc = "backoff_sleep" -> "send"

\* Where each time.sleep returns to.
AfterSleep(pc) ==
  CASE pc = "interval_sleep" -> "budget"
    [] pc = "budget_sleep" -> "send"
    [] pc = "ratelimit_sleep" -> "resend"
    [] pc = "backoff_sleep" -> "check"

Sleeping(c) ==
  /\ stack[c] # <<>>
  /\ sig[c].t = "run"
  /\ Top(c).pc \in {"interval_sleep", "budget_sleep", "ratelimit_sleep", "backoff_sleep"}

\* time.sleep returns: no earlier than asked, later by the overshoot.
WakeUp(c, overshoot) ==
  /\ Sleeping(c)
  /\ now' = Max(now, Top(c).wake) + overshoot
  /\ stack' = [stack EXCEPT ![c] = SetTop(@, [Top(c) EXCEPT !.pc = AfterSleep(Top(c).pc)])]
  /\ UNCHANGED <<rate_limit, last_request_time, net, sig, netlog, sleeps>>
  /\ UNCHANGED procVars

\* session.get is called.
SessionGet(c, maxcalls) ==
  /\ At(c, "send")
  /\ Len(netlog[c]) < maxcalls
  /\ stack' = [stack EXCEPT ![c] = SetTop(@, [Top(c) EXCEPT !.pc = "recv", !.checked = FALSE])]
  /\ net' = [net EXCEPT !.start = now]
  /\ UNCHANGED <<now, rate_limit, last_request_time, sig, netlog, sleeps>>
  /\ UNCHANGED procVars

\* A handling of answers that waits and resends after every 403.
HandleAnswerResend403(u, o) ==
  CASE o.st \in {"timeout", "connerr"} -> [act |-> "return", v |-> None]
    [] o.st = "404" -> [act |-> "return", v |-> None]
    [] o.st = "403" -> [act |-> "resend", v |-> None]
    [] o.st \in {"400", "500"} -> [act |-> "return", v |-> None]
    [] o.st = "200" ->
         IF o.kind = "bad" THEN [act |-> "return", v |-> None]
         ELSE IF o.next # NoLink /\ o.kind = "list"
           THEN [act |-> "follow", v |-> JsonList(PageItems(u, o.n))]
           ELSE [act |-> "return",
                 v |-> IF o.kind = "list" THEN JsonList(PageItems(u, o.n))
                                          ELSE JsonDict(PageItems(u, o.n), o.content)]

\* What make_request does with the answer o to its request for url u:
\*   "return" v, "resend" after the rate-limit sleep, or "follow" the next link.
HandleAnswer(u, o) ==
  CASE o.st \in {"timeout", "connerr"} -> [act |-> "return", v |-> None]
    [] o.st = "404" -> [act |-> "return", v |-> None]
    [] o.st = "403" -> IF o.rl THEN [act |-> "resend", v |-> None]
                               ELSE [act |-> "return", v |-> None]
    [] o.st \in {"400", "500"} -> [act |-> "return", v |-> None]
    [] o.st = "200" ->
         IF o.kind = "bad" THEN [act |-> "return", v |-> None]
         ELSE IF o.next # NoLink /\ o.kind = "list"
           THEN [act |-> "follow", v |-> JsonList(PageItems(u, o.n))]
           ELSE [act |-> "return",
                 v |-> IF o.kind = "list" THEN JsonList(PageItems(u, o.n))
                                          ELSE JsonDict(PageItems(u, o.n), o.content)]

LogEntry(u, o) ==
  [url |-> u, st |-> o.st, rl |-> o.rl, kind |-> o.kind, n |-> o.n, content |-> o.content,
   next |-> o.next, hdr |-> o.hdr]

\* session.get ends after d ticks with the answer o.
Response(c, o, d) ==
  /\ At(c, "recv")
  /\ now' = now + d
  /\ net' = [net EXCEPT !.end = now']
  /\ netlog' = [netlog EXCEPT ![c] = Append(@, LogEntry(Top(c).url, o))]
  /\ LET f == Top(c)
         failed == o.st \in {"timeout", "connerr"}
         rl == IF failed THEN rate_limit ELSE HandleRateLimit(rate_limit, o.hdr)
         h == HandleAnswer(f.url, o)
     IN /\ rate_limit' = rl
        /\ last_request_time' = IF failed THEN last_request_time ELSE now'
        /\ CASE h.act = "return" ->
                  /\ stack' = [stack EXCEPT ![c] = Pop(@)]
                  /\ sig' = [sig EXCEPT ![c] = Returned(h.v)]
                  /\ UNCHANGED sleeps
             [] h.act = "resend" ->
                  /\ stack' = [stack EXCEPT ![c] = SetTop(@,
                        [f EXCEPT !.pc = "ratelimit_sleep",
                                  !.wake = now' + Max(rl.reset - now', 0) + OneSecond])]
                  /\ sleeps' = [sleeps EXCEPT ![c].ratelimit = @ + 1]
                  /\ UNCHANGED sig
             [] h.act = "follow" ->
                  /\ stack' = [stack EXCEPT ![c] = Append(SetTop(@,
                        [f EXCEPT !.pc = "page_wait", !.body = h.v.items]), Frame(o.next))]
                  /\ UNCHANGED <<sig, sleeps>>
  /\ UNCHANGED procVars

\* After the rate-limit sleep: return self.make_request(url, params).
Resend(c) ==
  /\ At(c, "resend")
  /\ stack' = [stack EXCEPT ![c] = Append(SetTop(@, [Top(c) EXCEPT !.pc = "rl_wait"]),
                                          Frame(Top(c).url))]
  /\ UNCHANGED <<now, rate_limit, last_request_time, net, sig, netlog, sleeps>>
  /\ UNCHANGED procVars

Waiting(c, pc) == stack[c] # <<>> /\ sig[c].t \in {"ret", "exc"} /\ Top(c).pc = pc

\* A merge that puts the later pages before the page itself.
MergePagesReversed(b, v) ==
  IF Truthy(v)
    THEN IF v.kind = "list" THEN [act |-> "return", v |-> JsonList(v.items \o b)]
                            ELSE [act |-> "raise", v |-> None]
    ELSE [act |-> "return", v |-> JsonList(b)]

\* What the page activation with body b returns when the request for the next
\* page returned v: the concatenation, or its own page when v is false.
\* "raise" is the TypeError of list + dict.
MergePages(b, v) ==
  IF Truthy(v)
    THEN IF v.kind = "list" THEN [act |-> "return", v |-> JsonList(b \o v.items)]
                            ELSE [act |-> "raise", v |-> None]
    ELSE [act |-> "return", v |-> JsonList(b)]

\* The recursive call of the pagination branch is over.
ResumePage(c) ==
  /\ Waiting(c, "page_wait")
  /\ LET m == IF sig[c].t = "exc" THEN [act |-> "raise", v |-> None]
                                  ELSE MergePages(Top(c).body, sig[c].v)
         r == IF m.act = "raise" THEN WrapperExcept(stack[c], now)
                                 ELSE DoReturn(stack[c], m.v)
     IN /\ stack' = [stack EXCEPT ![c] = r.stack]
        /\ sig' = [sig EXCEPT ![c] = r.sig]
        /\ sleeps' = [sleeps EXCEPT ![c].backoff = IF r.sig.t = "run" THEN @ + 1 ELSE @]
  /\ UNCHANGED <<now, rate_limit, last_request_time, net, netlog>>
  /\ UNCHANGED procVars

\* The recursive call of the rate-limit branch is over: its result is returned.
ResumeResend(c) ==
  /\ Waiting(c, "rl_wait")
  /\ LET r == IF sig[c].t = "exc" THEN WrapperExcept(stack[c], now)
                                  ELSE DoReturn(stack[c], sig[c].v)
     IN /\ stack' = [stack EXCEPT ![c] = r.stack]
        /\ sig' = [sig EXCEPT ![c] = r.sig]
        /\ sleeps' = [sleeps EXCEPT ![c].backoff = IF r.sig.t = "run" THEN @ + 1 ELSE @]
  /\ UNCHANGED <<now, rate_limit, last_request_time, net, netlog>>
  /\ UNCHANGED procVars

\* The answers the server may give to the request caller c is waiting on.
AnswersAt(c, env) == IF At(c, "recv") THEN env.answers[Top(c).url] ELSE {}

\* One step of one request of caller c in the surroundings env.
Request(c, env) ==
  \/ CheckRateLimit(c)
  \/ CheckBudget(c)
  \/ \E j \in env.jitter : WakeUp(c, j)
  \/ SessionGet(c, env.maxcalls)
  \/ \E o \in AnswersAt(c, env), d \in env.netdelay : Response(c, o, d)

\* One step of caller c's make_request, recursive calls included.
Transport(c, env) ==
  \/ Request(c, env)
  \/ Resend(c)
  \/ ResumePage(c)
  \/ ResumeResend(c)

\* ------------------------------------------------------------ Spec
\* One make_request call of one caller on a fresh GitHubAPI.
Next ==
  \/ \E u \in Urls : ApiCall(1, u)
  \/ Transport(1, TransportEnv)

Spec == Init /\ [][Next]_vars

\* The call of caller c is over: a value was returned or an exception raised.
Done(c) == stack[c] = <<>> /\ sig[c].t \in {"ret", "exc"}
NetCalls(c) == Len(netlog[c])

\* ------------------------------------------------------------ the log of a call
Transient(e) == e.st \in {"timeout", "connerr", "500"}
RateLimited(e) == e.st = "403" /\ e.rl
NotFound(e) == e.st = "404"
\* Fatal: a failure that is not a 404 and not a rate-limit answer.
Fatal(e) ==
  \/ e.st \in {"timeout", "connerr", "400", "500"}
  \/ e.st = "403" /\ ~e.rl
  \/ e.st = "200" /\ e.kind = "bad"
\* a list page that carries a rel="next" link
HasNext(e) == e.st = "200" /\ e.kind = "list" /\ e.next # NoLink

\* The log is that of a paginated resource served without failure: non-empty
\* list pages, each linking to the url of the next answer, the last to none.
IsLinked(log) ==
  /\ \A i \in 1..Len(log) : log[i].st = "200" /\ log[i].kind = "list" /\ log[i].n >= 1
  /\ \A i \in 1..(Len(log) - 1) : log[i].next = log[i + 1].url
IsChain(log) == Len(log) >= 1 /\ IsLinked(log) /\ log[Len(log)].next = NoLink

RECURSIVE ConcatPages(_)
ConcatPages(log) ==
  IF log = <<>> THEN <<>>
  ELSE PageItems(log[1].url, log[1].n) \o ConcatPages(Tail(log))

\* ------------------------------------------------------------ claims

\* C4: timeouts, connection failures and 5xx are retried with a backoff sleep
\* until max_retries is exhausted: a call all of whose attempts failed that
\* way is over only after max_retries network calls and max_retries - 1
\* backoff sleeps (so two timeouts are followed by a third attempt).
C4_TransientFailuresAreRetried ==
  \A c \in Callers :
    (Done(c) /\ NetCalls(c) >= 1 /\ \A i \in 1..NetCalls(c) : Transient(netlog[c][i]))
      => (NetCalls(c) = MaxRetries /\ sleeps[c].backoff = MaxRetries - 1)

\* C5: the forced resends after rate-limit-exhausted answers are bounded by a
\* hard cap within one call: their number stays below the number of network
\* calls one call may make here, whatever the cap is.
C5_ForcedResendsAreCapped ==
  \A c \in Callers : sleeps[c].ratelimit < MaxNetCalls

\* C6: a resource of n non-empty pages linked by rel="next", served without
\* failure, is returned as the concatenation of the pages in page order after
\* exactly n network calls: while the last page fetched links to a next one
\* the call is not over, and once the page without a link is fetched no
\* further request is made and the value on its way back is the concatenation
\* of the pages from the returning activation's on.
C6_PagesConcatenated ==
  \A c \in Callers :
    LET log == netlog[c] IN
    /\ (IsLinked(log) /\ log # <<>> /\ HasNext(log[Len(log)])) => ~Done(c)
    /\ IsChain(log) =>
         sig[c] = Returned(JsonList(ConcatPages(SubSeq(log, Len(stack[c]) + 1, Len(log)))))

\* C6 witness: three pages of two items were fetched and the call is over.
C6_Witness ==
  /\ Done(1)
  /\ IsChain(netlog[1])
  /\ NetCalls(1) = 3
  /\ \A i \in 1..3 : netlog[1][i].n = 2
  /\ Len(sig[1].v.items) = 6

\* C7: when the request for a page after the first fails (Fatal or NotFound),
\* the call returns the failure, never a list of the pages before it.
C7_NoPartialResult ==
  \A c \in Callers :
    (/\ Done(c)
     /\ NetCalls(c) >= 2
     /\ \A i \in 1..(NetCalls(c) - 1) : HasNext(netlog[c][i])
     /\ LET e == netlog[c][NetCalls(c)] IN Fatal(e) \/ NotFound(e))
      => ~(sig[c].t = "ret" /\ sig[c].v.kind = "list")

\* C8: a paginated fetch never follows a rel="next" link to a url it has
\* already requested in the same fetch.
C8_NoPointerFollowedTwice ==
  \A c \in Callers :
    \A j \in 2..NetCalls(c) :
      (HasNext(netlog[c][j - 1]) /\ netlog[c][j - 1].next = netlog[c][j].url)
        => \A i \in 1..(j - 1) : netlog[c][i].url # netlog[c][j].url

\* C9: the result of a call that ended on a Fatal answer is distinguishable
\* from the result of a call that ended on a 404.
C9_FatalDistinctFromNotFound ==
  \A c \in Callers :
    (Done(c) /\ NetCalls(c) = 1 /\ Fatal(netlog[c][1]))
      => sig[c] # Returned(HandleAnswer(netlog[c][1].url,
                              Answer("404", FALSE, "dict", 1, NoLink, NoHdr)).v)

\* ------------------------------------------------------------ RateSpec
\* A later make_request on the same API object, while the horizon allows.
ApiCallAgain(c, u) ==
  /\ Done(c)
  /\ now < MaxTime
  /\ StartCall(c, u)
  /\ ResetLogs(c)
  /\ UNCHANGED procVars

\* One caller calls make_request again and again; the answers carry
\* rate-limit headers, network calls take time and sleeps overshoot.
RateNext ==
  \/ ApiCall(1, 1)
  \/ ApiCallAgain(1, 1)
  \/ Request(1, RateEnv)

RateSpec == Init /\ [][RateNext]_vars

\* C10: when the rate-limit state has remaining <= 5 and reset lies after
\* the entry of _check_rate_limit, the call returns (and the network call can
\* start) only once the clock has reached reset + 1 s; with remaining = 6 it
\* does no budget wait.
C10_LowBudgetBlocksUntilReset ==
  \A c \in Callers :
    (At(c, "send") \/ At(c, "recv")) =>
      /\ (rate_limit.remaining <= 5 /\ rate_limit.reset > Top(c).current_time)
            => now >= rate_limit.reset + OneSecond
      /\ rate_limit.remaining >= 6 => Top(c).budget_wait = 0

\* C10 witness: at the boundary remaining = 5 the check has waited past a
\* reset that lay in the future and is about to start the network call.
C10_Witness ==
  /\ At(1, "send")
  /\ rate_limit.remaining = 5
  /\ rate_limit.reset > Top(1).current_time
  /\ Top(1).budget_wait > 0
  /\ now >= rate_limit.reset + OneSecond

\* C11: the budget wait of one _check_rate_limit call is at most
\* (reset - now) + 1 s, now being the clock at its entry, and there is no
\* budget wait at all when reset is already in the past, even with
\* remaining <= 5.
C11_BlockIsBounded ==
  \A c \in Callers :
    At(c, "send") =>
      LET f == Top(c) IN
      /\ f.budget_wait <= Max(rate_limit.reset - f.current_time + OneSecond, 0)
      /\ rate_limit.reset < f.current_time => f.budget_wait = 0

\* C12: in sequential use every network call is started at least
\* min_request_interval after the previous network call ended, whether that
\* one ended with a response or with an exception.
C12_MinimumSpacing ==
  \A c \in Callers :
    (At(c, "recv") /\ net.end # Absent) => net.start >= net.end + MinRequestInterval

\* ------------------------------------------------------------ ConcSpec
\* Answers with a response only, some of them announcing a low budget.
ConcEnv ==
  [ answers |-> [u \in Urls |->
                  { Answer("200", FALSE, "dict", 1, NoLink, h) :
                      h \in { [remaining |-> r, reset |-> t, limit |-> Absent, used |-> Absent] :
                                r \in {Absent, 3}, t \in {Absent, StartTime + 8} } }],
    netdelay |-> 0..MaxNetDelay,
    jitter |-> {0},
    maxcalls |-> 1 ]

\* Two callers (threads) use one GitHubAPI object at the same time, each
\* making one make_request call; their steps interleave freely, since the
\* class holds no lock.
ConcNext ==
  \E c \in Callers :
    \/ ApiCall(c, 1)
    \/ Request(c, ConcEnv)

ConcSpec == Init /\ [][ConcNext]_vars

\* C13: with concurrent callers the rate-limit check, the waits and the
\* updates of the shared state are serialized: no caller starts a network
\* call while the shared state shows remaining <= 5 and reset + 1 s has not
\* passed, and no network call starts less than min_request_interval after
\* the start of the previous one.
C13_CallersAreSerialized ==
  [][ \A c \in Callers :
        (At(c, "send") /\ At(c, "recv")') =>
          /\ ~(rate_limit.remaining <= 5 /\ now < rate_limit.reset + OneSecond)
          /\ net.start # Absent => now >= net.start + MinRequestInterval ]_vars

\* ------------------------------------------------------------ GitHubUserProcessor
\* Usernames are strings, kept as sequences of characters.
UserList == << <<"a">>, <<"a", "b">> >>
Users == { UserList[i] : i \in 1..Len(UserList) }
UserIdx(u) == CHOOSE i \in 1..Len(UserList) : UserList[i] = u
RepoNames == {"proj"}
MonthsArgs == {"12"}
README_FILES == <<"README.md", "README.rst", "README.txt", "README", "readme.md">>
NotFoundMessage == Str("README not found or unreadable")

\* The urls of the endpoints of user u, numbered after the page urls:
\* /users/u, /users/u/repos, /users/u/events and
\* /repos/u/<repo>/contents/<README_FILES[i]>.
Slots == 3 + Len(README_FILES)
EndpointUrl(u, slot) == NumUrls + (UserIdx(u) - 1) * Slots + slot
UserUrl(u) == EndpointUrl(u, 1)
ReposUrl(u) == EndpointUrl(u, 2)
EventsUrl(u) == EndpointUrl(u, 3)
ReadmeUrl(u, r, i) == EndpointUrl(u, 3 + i)
IsReadmeUrl(x) == \E u \in Users, i \in 1..Len(README_FILES) : x = EndpointUrl(u, 3 + i)
IsListUrl(x) == \E u \in Users : x \in {ReposUrl(u), EventsUrl(u)}
EndpointUrls == { EndpointUrl(u, k) : u \in Users, k \in 1..Slots }

\* The cache keys, f"user_{username}" and so on, as sequences of tokens.
UserKey(u) == <<"user_">> \o u
ReposKey(u) == <<"repos_">> \o u
EventsKey(u, m) == <<"events_">> \o u \o <<"_", m>>
ReadmeKey(u, r) == <<"readme_">> \o u \o <<"_", r>>
KeyOf(p) ==
  CASE p.op = "user" -> UserKey(p.user)
    [] p.op = "repos" -> ReposKey(p.user)
    [] p.op = "events" -> EventsKey(p.user, p.months)
    [] p.op = "readme" -> ReadmeKey(p.user, p.repo)

\* The rank of item i's pushed_at among the items the server holds.
PushedAt(i) == i % 2
\* sorted(repos, key=pushed_at, reverse=True): stable, latest first.
SortedByPushed(items) ==
  SelectSeq(items, LAMBDA i : PushedAt(i) = 1) \o SelectSeq(items, LAMBDA i : PushedAt(i) = 0)

\* What the fetch function of operation op makes of make_request's value v.
FetchResult(op, v) ==
  IF op = "repos"
    THEN IF Truthy(v) THEN JsonList(SortedByPushed(v.items)) ELSE None
    ELSE v

\* base64.b64decode(...).decode('utf-8') and _clean_readme_content: the text of
\* a README, the empty string for one that is markup only.
CleanReadme(content) == IF content = "markup" THEN Str("") ELSE Str("clean " \o content)
\* fetch_readme accepts the value v of one candidate file. A "garbled"
\* content raises binascii.Error or UnicodeDecodeError, which the loop catches.
ReadmeReadable(v) == Truthy(v) /\ v.kind = "dict" /\ v.content \in {"text", "markup"}
\* base64.b64decode raises ValueError for a content string with a character
\* that is not ASCII: the except clause of the loop does not name it.
DecodeRaises(v) == Truthy(v) /\ v.kind = "dict" /\ v.content = "nonascii"

\* A store without the None test: every result is kept.
CacheStoreAlways(m, key, result) == Put(m, key, result)

\* _get_cached_or_fetch stores a result that is not None.
CacheStore(m, key, result) == IF result # None THEN Put(m, key, result) ELSE m

\* What the public operation returns for the result of _get_cached_or_fetch.
PublicResult(op, result) ==
  IF op = "readme" THEN (IF Truthy(result) THEN result ELSE NotFoundMessage) ELSE result

OpSig(p) == <<p.op, p.user, p.repo, p.months>>
ProcIdle(c) == proc[c].op = "none" /\ stack[c] = <<>>

\* The record of operation p that ended when _get_cached_or_fetch (or the
\* lru_cache) gave result, after the network calls of log.
OpRecord(p, result, log) ==
  [op |-> p.op, user |-> p.user, repo |-> p.repo, months |-> p.months,
   v |-> PublicResult(p.op, result), raised |-> FALSE,
   calls |-> Len(log),
   failed |-> log # <<>> /\ result = None /\ (Fatal(log[Len(log)]) \/ NotFound(log[Len(log)])),
   first |-> p.first]
RaisedRecord(p, log) ==
  [op |-> p.op, user |-> p.user, repo |-> p.repo, months |-> p.months, v |-> None, raised |-> TRUE,
   calls |-> Len(log), failed |-> FALSE, first |-> p.first]

NewProc(op, u, r, m) ==
  LET p == [op |-> op, user |-> u, repo |-> r, months |-> m, idx |-> 1, first |-> FALSE]
  IN [p EXCEPT !.first = called.cleared /\ OpSig(p) \notin called.sigs]

\* The fetch operations of get_user_repo_info, in the order of its calls.
InfoFetches == <<"user", "repos", "readme", "events">>
\* The operations a run may begin: those of one get_user_repo_info, or
\* MaxOps of a caller that uses the processor freely.
OpsBudget == IF fcall.fn = "get_user_repo_info" THEN Len(InfoFetches) ELSE MaxOps

\* A caller begins the public operation p.
BeginOp(c, p) ==
  /\ ProcIdle(c)
  /\ nops < OpsBudget
  /\ nops' = nops + 1
  /\ called' = [called EXCEPT !.sigs = @ \cup {OpSig(p)}]
  /\ ResetLogs(c)
  /\ UNCHANGED fcall

\* The operation of caller c ends at once with value v, without a fetch.
EndAtOnce(c, p, v) ==
  /\ hist' = [hist EXCEPT ![c] = Push(@, OpRecord(p, v, <<>>))]
  /\ UNCHANGED <<cache, proc, stack, sig, now, rate_limit, last_request_time, net>>

\* _get_cached_or_fetch: a hit returns the stored value, a miss calls the
\* fetch function, whose first request goes to url.
GetCachedOrFetch(c, p, url) ==
  IF KeyOf(p) \in DOMAIN cache
    THEN /\ gcf' = [gcf EXCEPT ![c] = Push(@, [key |-> KeyOf(p), v |-> cache[KeyOf(p)], fetched |-> FALSE])]
         /\ lru' = IF p.op = "user" THEN Put(lru, p.user, cache[KeyOf(p)]) ELSE lru
         /\ EndAtOnce(c, p, cache[KeyOf(p)])
    ELSE /\ StartCall(c, url)
         /\ proc' = [proc EXCEPT ![c] = p]
         /\ UNCHANGED <<cache, lru, hist, gcf>>

\* get_user_info: lru_cache answers a username it has seen, whatever the
\* result was; otherwise the call goes to _get_cached_or_fetch.
GetUserInfo(c, u) ==
  LET p == NewProc("user", u, "", "") IN
  /\ BeginOp(c, p)
  /\ IF u \in DOMAIN lru
       THEN EndAtOnce(c, p, lru[u]) /\ UNCHANGED <<lru, gcf>>
       ELSE GetCachedOrFetch(c, p, UserUrl(u))

GetUserRepos(c, u) ==
  LET p == NewProc("repos", u, "", "") IN
  BeginOp(c, p) /\ GetCachedOrFetch(c, p, ReposUrl(u))

GetUserEvents(c, u, m) ==
  LET p == NewProc("events", u, "", m) IN
  BeginOp(c, p) /\ GetCachedOrFetch(c, p, EventsUrl(u))

GetReadmeContent(c, u, r) ==
  LET p == NewProc("readme", u, r, "") IN
  BeginOp(c, p) /\ GetCachedOrFetch(c, p, ReadmeUrl(u, r, 1))

\* The fetch function of operation p returned result: _get_cached_or_fetch
\* stores and returns it, and the operation ends.
EndFetch(c, p, result) ==
  /\ cache' = CacheStore(cache, KeyOf(p), result)
  /\ gcf' = [gcf EXCEPT ![c] = Push(@, [key |-> KeyOf(p), v |-> result, fetched |-> TRUE])]
  /\ lru' = IF p.op = "user" THEN Put(lru, p.user, result) ELSE lru
  /\ hist' = [hist EXCEPT ![c] = Push(@, OpRecord(p, result, netlog[c]))]
  /\ proc' = [proc EXCEPT ![c] = NoProc]
  /\ UNCHANGED <<stack, sig, now, rate_limit, last_request_time, net>>

\* An exception of make_request leaves the operation: nothing is stored.
EndRaised(c, p) ==
  /\ hist' = [hist EXCEPT ![c] = Push(@, RaisedRecord(p, netlog[c]))]
  /\ proc' = [proc EXCEPT ![c] = NoProc]
  /\ UNCHANGED <<cache, lru, gcf, stack, sig, now, rate_limit, last_request_time, net>>

\* make_request returned to the fetch function of get_user_info,
\* get_user_repos or get_user_events.
FinishFetch(c) ==
  /\ proc[c].op \in {"user", "repos", "events"}
  /\ Done(c)
  /\ IF sig[c].t = "exc"
       THEN EndRaised(c, proc[c])
       ELSE EndFetch(c, proc[c], FetchResult(proc[c].op, sig[c].v))
  /\ UNCHANGED <<netlog, sleeps, called, nops, fcall>>

\* make_request returned to fetch_readme for candidate idx: a readable file
\* ends the loop, otherwise the next candidate is requested, and after the
\* last one the result is None.
ReadmeStep(c) ==
  /\ proc[c].op = "readme"
  /\ Done(c)
  /\ LET p == proc[c] IN
     IF sig[c].t = "exc" \/ DecodeRaises(sig[c].v) THEN EndRaised(c, p)
     ELSE IF ReadmeReadable(sig[c].v) THEN EndFetch(c, p, CleanReadme(sig[c].v.content))
     ELSE IF p.idx < Len(README_FILES)
       THEN /\ StartCall(c, ReadmeUrl(p.user, p.repo, p.idx + 1))
            /\ proc' = [proc EXCEPT ![c].idx = p.idx + 1]
            /\ UNCHANGED <<cache, lru, hist, gcf>>
       ELSE EndFetch(c, p, None)
  /\ UNCHANGED <<netlog, sleeps, called, nops, fcall>>

\* clear_cache empties _cache.
ClearCache(c) ==
  /\ ProcIdle(c)
  /\ nops < MaxOps
  /\ nops' = nops + 1
  /\ cache' = EmptyMap
  /\ called' = [cleared |-> TRUE, sigs |-> {}]
  /\ gcf' = [x \in Callers |-> [prev |-> NoGcf, last |-> NoGcf]]
  /\ UNCHANGED <<lru, proc, hist, stack, sig, netlog, sleeps, now, rate_limit, last_request_time, net, fcall>>

\* ------------------------------------------------------------ CacheSpec
\* The server answers each endpoint with a body of its type or a failure:
\* an object for a user, a list (possibly empty) for repositories and events,
\* an object with a content field for a README file.
EndpointAnswers(x) ==
  IF IsReadmeUrl(x)
    THEN { Answer("404", FALSE, "dict", 1, NoLink, NoHdr) }
           \cup { [Answer("200", FALSE, "dict", 1, NoLink, NoHdr) EXCEPT !.content = "text"] }
  ELSE IF IsListUrl(x)
    THEN { Answer(st, FALSE, "dict", 1, NoLink, NoHdr) : st \in {"timeout", "404"} }
           \cup { Answer("200", FALSE, "list", n, NoLink, NoHdr) : n \in {0, MaxPageLen} }
  ELSE { Answer(st, FALSE, "dict", 1, NoLink, NoHdr) : st \in {"timeout", "404", "200"} }

CacheEnv ==
  [ answers |-> [x \in EndpointUrls |-> EndpointAnswers(x)],
    netdelay |-> {0},
    jitter |-> {0},
    maxcalls |-> Len(README_FILES) ]

\* One caller uses the fetch operations of one GitHubUserProcessor and
\* clears its cache.
CacheNext ==
  \/ \E u \in Users : GetUserInfo(1, u)
  \/ \E u \in Users : GetUserRepos(1, u)
  \/ \E u \in Users, m \in MonthsArgs : GetUserEvents(1, u, m)
  \/ \E u \in Users, r \in RepoNames : GetReadmeContent(1, u, r)
  \/ FinishFetch(1)
  \/ ReadmeStep(1)
  \/ ClearCache(1)
  \/ Request(1, CacheEnv)

CacheSpec == Init /\ [][CacheNext]_vars

SameCall(a, b) ==
  a.op # "none" /\ a.op = b.op /\ a.user = b.user /\ a.repo = b.repo /\ a.months = b.months

\* C1: of two successive _get_cached_or_fetch calls with one key, the second
\* does not invoke the fetch function and returns the stored value when the
\* first returned a value, and invokes it again when the first returned None.
C1_SecondCallUsesCache ==
  \A c \in Callers :
    LET a == gcf[c].prev
        b == gcf[c].last
    IN (a.key # <<>> /\ a.key = b.key) =>
         /\ a.v # None => (~b.fetched /\ b.v = a.v)
         /\ a.v = None => b.fetched

\* C1 witness: a second call with the key of a first one that had fetched a
\* value was answered without a fetch.
C1_Witness ==
  /\ gcf[1].prev.key # <<>>
  /\ gcf[1].prev.key = gcf[1].last.key
  /\ gcf[1].prev.fetched
  /\ gcf[1].prev.v # None
  /\ ~gcf[1].last.fetched

\* C2: an absent result caused by a failed request is not remembered: the
\* next call of the same operation with the same arguments issues a network
\* request again.
C2_FailureIsNotRemembered ==
  \A c \in Callers :
    (SameCall(hist[c].prev, hist[c].last) /\ hist[c].prev.failed)
      => hist[c].last.calls >= 1

\* C3: the first call of an operation after clear_cache invokes the network
\* fetch.
C3_ClearCacheForgetsAll ==
  \A c \in Callers : hist[c].last.first => hist[c].last.calls >= 1

\* ------------------------------------------------------------ find_best_repo
\* A repository item of the GitHub API (a dict). A key that the dict lacks is
\* "missing" (Absent for a number); pushed is the age of pushed_at in days.
Min(a, b) == IF a <= b THEN a ELSE b
\* dict.get(key, default)
Get(x, default) == IF x = Absent THEN default ELSE x
\* str.lower() on the names used here
Lower(name) == IF name = "U" THEN "u" ELSE name

RepoItemNames == {"U", "x"}
\* The pairs of 'readme' and 'has_wiki' an item may carry.
WikiFields ==
  { [readme |-> "missing", has_wiki |-> "missing"], [readme |-> "true", has_wiki |-> "missing"],
    [readme |-> "missing", has_wiki |-> "true"], [readme |-> "missing", has_wiki |-> "false"] }
\* The triples of stargazers_count, forks_count and size an item may carry.
CountFields ==
  { [stars |-> Absent, forks |-> Absent, size |-> Absent],
    [stars |-> 1, forks |-> 1, size |-> 1500],
    [stars |-> 30, forks |-> 30, size |-> 25000] }
RepoItems ==
  { [name |-> n, readme |-> w.readme, has_wiki |-> w.has_wiki, description |-> d,
     pushed |-> p, stars |-> k.stars, forks |-> k.forks, size |-> k.size] :
      n \in RepoItemNames, w \in WikiFields, d \in {"missing", "text"},
      p \in {Absent, 0}, k \in CountFields }

\* All sequences over S of length at most n.
SeqsUpTo(S, n) == UNION { [1..k -> S] : k \in 0..n }

\* repo['has_wiki'] raises KeyError when it is evaluated on an item without
\* the key: that is when repo.get('readme', False) is false.
ScoreRaises(repo) == repo.readme = "missing" /\ repo.has_wiki = "missing"

\* pushed_at is a string that datetime.fromisoformat rejects (ValueError).
Unparseable == -2
\* repo.get('description') is truthy: the key is there and the text not empty.
HasDescription(repo) == repo.description \notin {"missing", "empty"}
\* The try block of pushed_at reaches days_since_push.
PushedParses(repo) == repo.pushed \notin {Absent, Unparseable}

\* A score whose recency part is not limited to pushes of the last 30 days.
RepoScoreAnyAge(repo, username) ==
  (IF Lower(repo.name) = Lower(username) THEN 100 ELSE 0)
  + (IF repo.readme = "true" \/ repo.has_wiki = "true" THEN 50 ELSE 0)
  + (IF HasDescription(repo) THEN 30 ELSE 0)
  + (IF PushedParses(repo) THEN 40 - Min(repo.pushed, 40) ELSE 0)
  + Min(Get(repo.stars, 0) * 2, 50)
  + Min(Get(repo.forks, 0), 25)
  + Min(Get(repo.size, 0) \div 1000, 20)

\* _calculate_repo_score, for an item on which it does not raise.
RepoScore(repo, username) ==
  (IF Lower(repo.name) = Lower(username) THEN 100 ELSE 0)
  + (IF repo.readme = "true" \/ repo.has_wiki = "true" THEN 50 ELSE 0)
  + (IF HasDescription(repo) THEN 30 ELSE 0)
  + (IF PushedParses(repo) /\ repo.pushed < 30 THEN 40 - Min(repo.pushed, 40) ELSE 0)
  + Min(Get(repo.stars, 0) * 2, 50)
  + Min(Get(repo.forks, 0), 25)
  + Min(Get(repo.size, 0) \div 1000, 20)

\* _calculate_repo_score: the score, or the KeyError.
CalculateRepoScore(repo, username) ==
  IF ScoreRaises(repo) THEN [t |-> "exc", v |-> 0]
                       ELSE [t |-> "ret", v |-> RepoScore(repo, username)]

\* An insertion that puts a pair before the pairs of equal score.
InsertBeforeEqual(sorted, p) ==
  LET k == Cardinality({ i \in 1..Len(sorted) : sorted[i].score > p.score })
  IN SubSeq(sorted, 1, k) \o <<p>> \o SubSeq(sorted, k + 1, Len(sorted))

\* list.sort(key=score, reverse=True) is stable: a pair goes behind every pair
\* already placed whose score is greater or equal.
InsertDesc(sorted, p) ==
  LET k == Cardinality({ i \in 1..Len(sorted) : sorted[i].score >= p.score })
  IN SubSeq(sorted, 1, k) \o <<p>> \o SubSeq(sorted, k + 1, Len(sorted))

RECURSIVE SortDesc(_)
SortDesc(pairs) ==
  IF pairs = <<>> THEN <<>>
  ELSE InsertDesc(SortDesc(SubSeq(pairs, 1, Len(pairs) - 1)), pairs[Len(pairs)])

\* find_best_repo: None (idx 0) for no repos, the KeyError of a score, or the
\* item at position idx of the input.
FindBestRepo(repos, username) ==
  IF repos = <<>> THEN [t |-> "ret", idx |-> 0]
  ELSE IF \E i \in 1..Len(repos) : CalculateRepoScore(repos[i], username).t = "exc"
    THEN [t |-> "exc", idx |-> 0]
    ELSE LET scored_repos ==
               [i \in 1..Len(repos) |->
                  [score |-> CalculateRepoScore(repos[i], username).v, idx |-> i]]
         IN [t |-> "ret", idx |-> SortDesc(scored_repos)[1].idx]

\* ------------------------------------------------------------ RepoSpec
\* find_best_repo is called with any list of at most MaxRepos items.
RepoInit ==
  /\ NewProcessor
  /\ \E repos \in SeqsUpTo(RepoItems, MaxRepos) :
       fcall = [fn |-> "find_best_repo", args |-> repos, username |-> "u", out |-> [t |-> "pending"]]

FindBestRepoCall ==
  /\ fcall.fn = "find_best_repo"
  /\ fcall.out.t = "pending"
  /\ fcall' = [fcall EXCEPT !.out = FindBestRepo(fcall.args, fcall.username)]
  /\ UNCHANGED <<now, rate_limit, last_request_time, net, stack, sig, netlog, sleeps,
                 cache, lru, proc, hist, gcf, called, nops>>

RepoNext == FindBestRepoCall

RepoSpec == RepoInit /\ [][RepoNext]_vars

\* find_best_repo has returned or raised.
BestRepoDone == fcall.fn = "find_best_repo" /\ fcall.out.t \in {"ret", "exc"}
\* find_best_repo has returned an item of its input.
BestRepoFound == BestRepoDone /\ fcall.out.t = "ret" /\ fcall.out.idx >= 1

\* C14: when the list (of items that all have a score) holds an item whose
\* name equals the username case-insensitively, find_best_repo returns an
\* item with that name, whatever the other fields of the items are.
C14_NameMatchWins ==
  (/\ BestRepoDone
   /\ \A i \in 1..Len(fcall.args) : ~ScoreRaises(fcall.args[i])
   /\ \E i \in 1..Len(fcall.args) : Lower(fcall.args[i].name) = Lower(fcall.username))
    => /\ BestRepoFound
       /\ Lower(fcall.args[fcall.out.idx].name) = Lower(fcall.username)

C16_NeverRaisesOnMissingFields ==
  BestRepoDone =>
    /\ fcall.out.t = "ret"
    /\ (fcall.out.idx = 0) <=> (fcall.args = <<>>)

\* ------------------------------------------------------------ analyze_activity
\* The value of an event's 'created_at': the key is missing, the value is
\* null, a string that datetime.fromisoformat rejects ("bad"), or a timestamp
\* ("ok"): t counts half days of the year 2024 (t \div 2 is the day of the
\* year), aware tells whether the string carries a UTC offset ('Z').
NoDate == [kind |-> "none", t |-> 0, aware |-> FALSE]
Date(day, half, aware) == [kind |-> "ok", t |-> 2 * day + half, aware |-> aware]
CreatedAts ==
  { [kind |-> k, t |-> 0, aware |-> FALSE] : k \in {"missing", "null", "bad"} }
    \cup { Date(5, 0, FALSE), Date(20, 1, FALSE), Date(32, 0, FALSE), Date(20, 0, TRUE) }
EventTypes == {"missing", "PushEvent", "ForkEvent"}
\* 'repo': the key is missing, a dict without 'name', or a dict with a name.
EventRepos == {"missing", "noname", "r"}
Events == [created_at : CreatedAts, type : EventTypes, repo : EventRepos]

\* event_date.strftime('%Y-%m')
MonthKey(d) == IF d.t \div 2 <= 31 THEN "2024-01" ELSE "2024-02"
\* (last - first).days for last >= first
DaysBetween(first, last) == (last.t - first.t) \div 2

\* defaultdict(int): m[k] += 1
Inc(m, k) == IF k \in DOMAIN m THEN [m EXCEPT ![k] = @ + 1] ELSE Put(m, k, 1)

\* The locals of analyze_activity before the loop.
NoActivity ==
  [t |-> "run", monthly_activity |-> <<>>, activity_by_type |-> <<>>, repo_activity |-> <<>>,
   last_activity |-> NoDate, first_activity |-> NoDate]

\* One pass of the loop body for event e. KeyError and ValueError leave the
\* body (continue) with what was counted so far; AttributeError (None.replace)
\* and TypeError (an offset-aware datetime compared with a naive one) leave
\* analyze_activity.
CountEvent(acc, e) ==
  IF acc.t = "exc" THEN acc
  ELSE IF e.created_at.kind \in {"missing", "bad"} THEN acc
  ELSE IF e.created_at.kind = "null" THEN [acc EXCEPT !.t = "exc"]
  ELSE
    LET a1 == [acc EXCEPT !.monthly_activity = Inc(@, MonthKey(e.created_at))] IN
    IF e.type = "missing" THEN a1
    ELSE
      LET a2 == [a1 EXCEPT !.activity_by_type = Inc(@, e.type)] IN
      IF e.repo = "noname" THEN a2
      ELSE
        LET a3 == [a2 EXCEPT !.repo_activity =
                      Inc(@, IF e.repo = "missing" THEN "unknown" ELSE e.repo)]
        IN IF a3.last_activity # NoDate /\ a3.last_activity.aware # e.created_at.aware
             THEN [a3 EXCEPT !.t = "exc"]
             ELSE [a3 EXCEPT
                     !.last_activity = IF @ = NoDate \/ e.created_at.t > @.t THEN e.created_at ELSE @,
                     !.first_activity = IF @ = NoDate \/ e.created_at.t < @.t THEN e.created_at ELSE @]

RECURSIVE CountEvents(_)
CountEvents(events) ==
  IF events = <<>> THEN NoActivity
  ELSE CountEvent(CountEvents(SubSeq(events, 1, Len(events) - 1)), events[Len(events)])

\* A quotient, kept as a fraction; 0 is 0 / 1.
Ratio(num, den) == [num |-> num, den |-> den]

\* _get_empty_activity_data
EmptyActivityData ==
  [t |-> "ret", total_events |-> 0, monthly_activity |-> <<>>, activity_by_type |-> <<>>,
   repo_activity |-> <<>>, last_activity |-> NoDate, first_activity |-> NoDate,
   activity_period_days |-> 0, daily_avg_events |-> Ratio(0, 1)]

\* analyze_activity: the summary, or the exception that left the loop.
AnalyzeActivity(events) ==
  IF events = <<>> THEN EmptyActivityData
  ELSE
    LET acc == CountEvents(events)
        total_events == Len(events)
        activity_period ==
          IF acc.first_activity # NoDate /\ acc.last_activity # NoDate
            THEN DaysBetween(acc.first_activity, acc.last_activity) + 1 ELSE 0
    IN IF acc.t = "exc" THEN [t |-> "exc"]
       ELSE [t |-> "ret", total_events |-> total_events,
             monthly_activity |-> acc.monthly_activity,
             activity_by_type |-> acc.activity_by_type,
             repo_activity |-> acc.repo_activity,
             last_activity |-> acc.last_activity, first_activity |-> acc.first_activity,
             activity_period_days |-> activity_period,
             daily_avg_events |-> IF activity_period > 0 THEN Ratio(total_events, activity_period)
                                                         ELSE Ratio(0, 1)]

\* ------------------------------------------------------------ ActivitySpec
\* analyze_activity is called with any list of at most MaxEvents events.
ActivityInit ==
  /\ NewProcessor
  /\ \E events \in SeqsUpTo(Events, MaxEvents) :
       fcall = [fn |-> "analyze_activity", args |-> events, username |-> "", out |-> [t |-> "pending"]]

AnalyzeActivityCall ==
  /\ fcall.fn = "analyze_activity"
  /\ fcall.out.t = "pending"
  /\ fcall' = [fcall EXCEPT !.out = AnalyzeActivity(fcall.args)]
  /\ UNCHANGED <<now, rate_limit, last_request_time, net, stack, sig, netlog, sleeps,
                 cache, lru, proc, hist, gcf, called, nops>>

ActivityNext == AnalyzeActivityCall

ActivitySpec == ActivityInit /\ [][ActivityNext]_vars

ActivityDone == fcall.fn = "analyze_activity" /\ fcall.out.t \in {"ret", "exc"}

\* An event with a created_at that parses, a type, and no repo without a name.
WellFormed(e) == e.created_at.kind = "ok" /\ e.type # "missing" /\ e.repo # "noname"
WellFormedAt(events) == { i \in 1..Len(events) : WellFormed(events[i]) }

RECURSIVE SumValues(_)
SumValues(m) ==
  IF DOMAIN m = {} THEN 0
  ELSE LET k == CHOOSE k \in DOMAIN m : TRUE
       IN m[k] + SumValues([x \in DOMAIN m \ {k} |-> m[x]])

\* C17: in a summary analyze_activity returns, malformed events affect no
\* count: total_events is the number of well-formed events and equals the sum
\* of each of the three maps.
C17_MalformedEventsNotCounted ==
  (ActivityDone /\ fcall.out.t = "ret") =>
    LET out == fcall.out IN
    /\ out.total_events = Cardinality(WellFormedAt(fcall.args))
    /\ out.total_events = SumValues(out.monthly_activity)
    /\ out.total_events = SumValues(out.activity_by_type)
    /\ out.total_events = SumValues(out.repo_activity)

\* C18: analyze_activity never raises, whatever malformed entries the list
\* holds, and for the empty list it returns the summary with all counts zero,
\* all maps empty and no first or last timestamp.
C18_NeverRaises ==
  ActivityDone =>
    /\ fcall.out.t = "ret"
    /\ fcall.args = <<>> => fcall.out = EmptyActivityData

\* C19: for every event list (here: without a null created_at, which is
\* C18's case) analyze_activity returns a summary whose first_activity and
\* last_activity are the minimum and maximum timestamp of the well-formed
\* events, whose activity_period_days is their distance in whole days + 1
\* (0 without a well-formed event) and whose daily_avg_events is
\* total_events / activity_period_days (0 when the period is 0).
C19_PeriodAndAverage ==
  (ActivityDone /\ \A i \in 1..Len(fcall.args) : fcall.args[i].created_at.kind # "null") =>
    /\ fcall.out.t = "ret"
    /\ LET out == fcall.out
           wf == { fcall.args[i].created_at : i \in WellFormedAt(fcall.args) }
       IN IF wf = {}
            THEN /\ out.first_activity = NoDate /\ out.last_activity = NoDate
                 /\ out.activity_period_days = 0
                 /\ out.daily_avg_events = Ratio(0, 1)
            ELSE /\ out.first_activity \in wf /\ \A d \in wf : out.first_activity.t <= d.t
                 /\ out.last_activity \in wf /\ \A d \in wf : out.last_activity.t >= d.t
                 /\ out.activity_period_days
                      = (out.last_activity.t - out.first_activity.t) \div 2 + 1
                 /\ out.daily_avg_events = Ratio(out.total_events, out.activity_period_days)

\* ------------------------------------------------------------ main: the repeat path
\* str.startswith on keys
StartsWith(key, prefix) ==
  Len(prefix) <= Len(key) /\ SubSeq(key, 1, Len(prefix)) = prefix

\* The keys main removes for username u.
KeysToRemove(m, u) ==
  { k \in DOMAIN m : StartsWith(k, UserKey(u)) \/ StartsWith(k, ReposKey(u)) }

\* main, for a username that was processed before (get_user_info returned
\* its data then) and is to be repeated: the keys are deleted from _cache.
Invalidate(c, u) ==
  /\ ProcIdle(c)
  /\ nops < MaxOps
  /\ u \in DOMAIN lru
  /\ Truthy(lru[u])
  /\ nops' = nops + 1
  /\ cache' = [k \in DOMAIN cache \ KeysToRemove(cache, u) |-> cache[k]]
  /\ gcf' = [x \in Callers |-> [prev |-> NoGcf, last |-> NoGcf]]
  /\ UNCHANGED <<lru, proc, hist, called, stack, sig, netlog, sleeps, now, rate_limit,
                 last_request_time, net, fcall>>

\* ------------------------------------------------------------ RepeatSpec
\* The fetch operations and clear_cache as in CacheSpec, and the invalidation
\* of one username.
RepeatNext ==
  \/ CacheNext
  \/ \E u \in Users : Invalidate(1, u)

RepeatSpec == Init /\ [][RepeatNext]_vars

\* The keys under which results for username u are cached.
KeysOfUser(u) ==
  {UserKey(u), ReposKey(u)}
    \cup { EventsKey(u, m) : m \in MonthsArgs } \cup { ReadmeKey(u, r) : r \in RepoNames }

\* C20: the invalidation of username u leaves no cached result for u (user,
\* repos, events and readme are all fetched again on the next request) and
\* leaves the cached results of every other username unchanged, also of a
\* username that starts with u.
C20_InvalidationOfOneIdentity ==
  [][ \A u \in Users :
        Invalidate(1, u) =>
          /\ \A k \in KeysOfUser(u) : k \notin DOMAIN cache'
          /\ u \notin DOMAIN lru'
          /\ \A k \in DOMAIN cache :
               k \notin KeysOfUser(u) => (k \in DOMAIN cache' /\ cache'[k] = cache[k]) ]_vars

\* ------------------------------------------------------------ cancellation
\* KeyboardInterrupt is no subclass of Exception: neither the except clauses
\* of make_request nor 'except Exception' of retry's wrapper catch it, and
\* _get_cached_or_fetch, lru_cache and the fetch functions have no handler.
\* A store that marks the key when the fetch function raises.
CacheOnRaiseMarked(m, key) == Put(m, key, None)

\* _get_cached_or_fetch when fetch_func() raises: the lines that store the
\* result are not reached.
CacheOnRaise(m, key) == m

\* The record of operation p that an interrupt ended.
InterruptedRecord(p, log) == [RaisedRecord(p, log) EXCEPT !.v = Str("KeyboardInterrupt")]
Interrupted(r) == r.raised /\ r.v = Str("KeyboardInterrupt")

\* An interrupt is raised in caller c while session.get or a time.sleep is
\* running: it leaves every activation of make_request and the operation.
Interrupt(c) ==
  /\ proc[c].op # "none"
  /\ At(c, "recv") \/ Sleeping(c)
  /\ stack' = [stack EXCEPT ![c] = <<>>]
  /\ sig' = [sig EXCEPT ![c] = Raised]
  /\ net' = IF At(c, "recv") THEN [net EXCEPT !.end = now] ELSE net
  /\ cache' = CacheOnRaise(cache, KeyOf(proc[c]))
  /\ hist' = [hist EXCEPT ![c] = Push(@, InterruptedRecord(proc[c], netlog[c]))]
  /\ proc' = [proc EXCEPT ![c] = NoProc]
  /\ UNCHANGED <<lru, gcf, called, nops, fcall, netlog, sleeps, now, rate_limit, last_request_time>>

\* ------------------------------------------------------------ CancelSpec
\* Answers that lead a fetch into each kind of sleep: a list endpoint may
\* answer with a page that links to page url 1, which answers with an object
\* (the TypeError of the merge, hence a backoff sleep) or a list; an endpoint
\* may answer 403 'rate limit' (hence a rate-limit sleep).
CancelAnswers(x) ==
  IF x \in Urls
    THEN { Answer("200", FALSE, k, 1, NoLink, NoHdr) : k \in {"dict", "list"} }
  ELSE IF IsReadmeUrl(x)
    THEN { Answer("404", FALSE, "dict", 1, NoLink, NoHdr) }
           \cup { [Answer("200", FALSE, "dict", 1, NoLink, NoHdr) EXCEPT !.content = "text"] }
  ELSE IF IsListUrl(x)
    THEN { Answer("200", FALSE, "list", 1, nx, NoHdr) : nx \in {NoLink, 1} }
           \cup { Answer("403", TRUE, "dict", 1, NoLink, NoHdr) }
  ELSE { Answer("200", FALSE, "dict", 1, NoLink, NoHdr), Answer("403", TRUE, "dict", 1, NoLink, NoHdr) }

CancelEnv ==
  [ answers |-> [x \in Urls \cup EndpointUrls |-> CancelAnswers(x)],
    netdelay |-> {0},
    jitter |-> {0},
    maxcalls |-> MaxNetCalls ]

\* One caller uses the fetch operations for one username, at most
\* MaxCancelOps times, and may be interrupted in each.
CancelUsers == {UserList[1]}
CancelNext ==
  \/ \E u \in CancelUsers : nops < MaxCancelOps /\ GetUserInfo(1, u)
  \/ \E u \in CancelUsers : nops < MaxCancelOps /\ GetUserRepos(1, u)
  \/ \E u \in CancelUsers, m \in MonthsArgs : nops < MaxCancelOps /\ GetUserEvents(1, u, m)
  \/ \E u \in CancelUsers, r \in RepoNames : nops < MaxCancelOps /\ GetReadmeContent(1, u, r)
  \/ FinishFetch(1)
  \/ ReadmeStep(1)
  \/ Transport(1, CancelEnv)
  \/ Interrupt(1)

CancelSpec == Init /\ [][CancelNext]_vars

\* C21: a fetch that is cancelled in flight writes no cache entry: from the
\* start of a fetch to its cancellation _cache and the lru_cache do not
\* change (no step taken while the fetch is in flight changes them), after
\* the cancellation the key is not cached, and the next request for the same
\* key fetches again.
C21_CancelledFetchWritesNothing ==
  /\ [][ \A c \in Callers :
           (proc[c].op # "none" /\ ~Done(c)) => (cache' = cache /\ lru' = lru) ]_vars
  /\ [](\A c \in Callers :
          /\ Interrupted(hist[c].last) =>
               /\ KeyOf(hist[c].last) \notin DOMAIN cache
               /\ hist[c].last.op = "user" => hist[c].last.user \notin DOMAIN lru
          /\ (Interrupted(hist[c].prev) /\ SameCall(hist[c].prev, hist[c].last)) =>
               (hist[c].last.calls >= 1 \/ hist[c].last.raised))

\* C21 witness: an operation was cancelled after a network call of its fetch,
\* and the same operation, called again, fetched and cached its result.
C21_Witness ==
  /\ Interrupted(hist[1].prev)
  /\ hist[1].prev.calls >= 1
  /\ SameCall(hist[1].prev, hist[1].last)
  /\ ~hist[1].last.raised
  /\ hist[1].last.calls >= 1
  /\ KeyOf(hist[1].last) \in DOMAIN cache

\* ------------------------------------------------------------ HeaderSpec
\* Responses of every status that carry any subset of the four
\* X-RateLimit-* headers, and network calls that fail.
HeaderSets ==
  { [remaining |-> r, reset |-> t, limit |-> l, used |-> d] :
      r \in {Absent, 4999}, t \in {Absent, StartTime + 8}, l \in {Absent, 60}, d \in {Absent, 1} }
HeaderEnv ==
  [ answers |-> [u \in Urls |->
                  { Answer(st, FALSE, "dict", 1, NoLink, h) :
                      st \in {"200", "404", "403", "500"}, h \in HeaderSets }
                    \cup NetFailures],
    netdelay |-> 0..MaxNetDelay,
    jitter |-> {0},
    maxcalls |-> MaxNetCalls ]

HeaderNext ==
  \/ ApiCall(1, 1)
  \/ ApiCallAgain(1, 1)
  \/ Request(1, HeaderEnv)

HeaderSpec == Init /\ [][HeaderNext]_vars

\* session.get of caller c ends in this step.
Received(c) == At(c, "recv") /\ Len(netlog'[c]) = Len(netlog[c]) + 1
LastAnswer(log) == log[Len(log)]
RateFields == {"remaining", "reset", "limit", "used"}

\* C22: the rate-limit state changes only in a step that receives a
\* response; after a response of any status each of remaining, reset, limit,
\* used is the value of its header when the header is present and its
\* previous value when it is absent; after a timeout or a connection error
\* the four fields and last_request_time are unchanged.
C22_RateLimitFollowsResponses ==
  [][ /\ (\A c \in Callers : ~Received(c)) =>
            (rate_limit' = rate_limit /\ last_request_time' = last_request_time)
      /\ \A c \in Callers : Received(c) =>
           LET o == LastAnswer(netlog'[c])
           IN IF o.st \in {"timeout", "connerr"}
                THEN rate_limit' = rate_limit /\ last_request_time' = last_request_time
                ELSE \A f \in RateFields :
                       rate_limit'[f] = IF o.hdr[f] # Absent THEN o.hdr[f] ELSE rate_limit[f]
    ]_vars

\* A 404 response without the limit header has replaced remaining and kept
\* the limit that an earlier response had set.
C22_Witness ==
  /\ Done(1)
  /\ NetCalls(1) = 1
  /\ LastAnswer(netlog[1]).st = "404"
  /\ LastAnswer(netlog[1]).hdr.limit = Absent
  /\ LastAnswer(netlog[1]).hdr.remaining = 4999
  /\ LastAnswer(netlog[1]).hdr.used = Absent
  /\ rate_limit.remaining = 4999
  /\ rate_limit.limit = 60
  /\ rate_limit.used = 1

\* ------------------------------------------------------------ terminal answers
\* A 404, a 403 whose text lacks 'rate limit', another client error status,
\* or a 200 whose body is not JSON.
Terminal(e) ==
  \/ e.st \in {"404", "400"}
  \/ e.st = "403" /\ ~e.rl
  \/ e.st = "200" /\ e.kind = "bad"

\* C23: a 404, a 403 not caused by rate limiting, another non-transient error
\* status or a body that is not JSON ends make_request at once: the
\* activation that received it returns None in the same step without a sleep,
\* no network call follows it in the call, and when it answered the first
\* request the call is over after exactly one network call with no backoff
\* sleep and no rate-limit sleep.
C23_TerminalAnswersEndTheCall ==
  /\ [][ \A c \in Callers :
           (Received(c) /\ Terminal(LastAnswer(netlog'[c]))) =>
             /\ stack'[c] = Pop(stack[c])
             /\ sig'[c] = Returned(None)
             /\ sleeps'[c] = sleeps[c] ]_vars
  /\ [](\A c \in Callers :
          /\ \A i \in 1..NetCalls(c) :
               Terminal(netlog[c][i]) => (i = NetCalls(c) /\ sig[c].t = "ret")
          /\ (NetCalls(c) >= 1 /\ Terminal(netlog[c][1])) =>
               /\ Done(c)
               /\ sig[c] = Returned(None)
               /\ sleeps[c].backoff = 0
               /\ sleeps[c].ratelimit = 0)

\* The first request was answered 403 without 'rate limit' and the call is over.
C23_Witness ==
  /\ Done(1)
  /\ NetCalls(1) = 1
  /\ netlog[1][1].st = "403"
  /\ ~netlog[1][1].rl
  /\ sig[1] = Returned(None)
  /\ sleeps[1] = NoSleeps

\* ------------------------------------------------------------ empty pages
EmptyPage(e) == e.st = "200" /\ e.kind = "list" /\ e.n = 0

\* C24: a paginated fetch stops as soon as a fetched page is empty: after an
\* empty list page no further page is requested, even when the page carries
\* a rel="next" link.
C24_EmptyPageStopsPagination ==
  \A c \in Callers :
    \A i \in 1..NetCalls(c) :
      EmptyPage(netlog[c][i]) => (i = NetCalls(c) /\ ~At(c, "recv"))

\* ------------------------------------------------------------ ScoreSpec
\* Items that carry every field: name, readme, has_wiki, description (empty
\* or not), pushed_at (None, a text that does not parse, or a timestamp that
\* is some days old) and counts that are natural numbers around the caps.
PushedFields == {Absent, Unparseable, 0, 1, 10, 29, 30, 35, 39, 40, 45}
ScoreItems ==
  { [name |-> n, readme |-> r, has_wiki |-> w, description |-> d,
     pushed |-> p, stars |-> st, forks |-> fk, size |-> sz] :
      n \in RepoItemNames, r \in {"true", "false"}, w \in {"true", "false"},
      d \in {"empty", "text"}, p \in PushedFields,
      st \in {0, 1, 25, 26}, fk \in {0, 24, 25, 26}, sz \in {0, 999, 1000, 20000, 21000} }

ScoreInit ==
  /\ NewProcessor
  /\ \E repo \in ScoreItems, u \in {"u", "y"} :
       fcall = [fn |-> "_calculate_repo_score", args |-> <<repo>>, username |-> u,
                out |-> [t |-> "pending"]]

CalculateRepoScoreCall ==
  /\ fcall.fn = "_calculate_repo_score"
  /\ fcall.out.t = "pending"
  /\ fcall' = [fcall EXCEPT !.out = CalculateRepoScore(fcall.args[1], fcall.username)]
  /\ UNCHANGED <<now, rate_limit, last_request_time, net, stack, sig, netlog, sleeps,
                 cache, lru, proc, hist, gcf, called, nops>>

ScoreNext == CalculateRepoScoreCall

ScoreSpec == ScoreInit /\ [][ScoreNext]_vars

ScoreDone == fcall.fn = "_calculate_repo_score" /\ fcall.out.t \in {"ret", "exc"}

\* The reference sum of the scoring rules; d is the age of the push in days.
ReferenceRecency(d) == IF d < 30 THEN Max(0, 40 - d) ELSE 0
ReferenceScore(repo, username) ==
  (IF Lower(repo.name) = Lower(username) THEN 100 ELSE 0)
  + (IF repo.has_wiki = "true" \/ repo.readme = "true" THEN 50 ELSE 0)
  + (IF repo.description = "text" THEN 30 ELSE 0)
  + (IF repo.pushed \in {Absent, Unparseable} THEN 0 ELSE ReferenceRecency(repo.pushed))
  + Min(2 * repo.stars, 50)
  + Min(repo.forks, 25)
  + Min(repo.size \div 1000, 20)

\* C25: for an item with all fields present and natural-number counts,
\* _calculate_repo_score returns the reference sum: 100 for the name match,
\* 50 for has_wiki or readme, 30 for a non-empty description, the recency
\* max(0, 40 - d) for a push d < 30 days old and 0 for an older, missing or
\* unparseable one, min(2*stars, 50), min(forks, 25), min(size div 1000, 20).
C25_ScoreIsReferenceSum ==
  ScoreDone =>
    /\ fcall.out.t = "ret"
    /\ fcall.out.v = ReferenceScore(fcall.args[1], fcall.username)

\* A named, described item pushed 10 days ago with counts beyond the caps
\* has scored 100 + 50 + 30 + 30 + 50 + 25 + 20.
C25_Witness ==
  /\ ScoreDone
  /\ fcall.out.t = "ret"
  /\ Lower(fcall.args[1].name) = Lower(fcall.username)
  /\ fcall.args[1].pushed = 10
  /\ fcall.args[1].stars = 26
  /\ fcall.args[1].size = 21000
  /\ fcall.out.v = 305

\* ------------------------------------------------------------ ReadmeSpec
\* The server answers a README candidate with 404 or with an object: without
\* a content field, or with a content that is text, markup only, not
\* decodable, or not ASCII. The later candidates are absent or text.
ReadmeContents == {"absent", "text", "markup", "garbled", "nonascii"}
ReadmeAnswers(i) ==
  { Answer("404", FALSE, "dict", 1, NoLink, NoHdr) }
    \cup { [Answer("200", FALSE, "dict", 1, NoLink, NoHdr) EXCEPT !.content = k] :
             k \in IF i <= 2 THEN ReadmeContents ELSE {"text"} }
ReadmeUser == UserList[1]
ReadmeEnv ==
  [ answers |-> [x \in EndpointUrls |->
                  IF \E i \in 1..Len(README_FILES), r \in RepoNames : x = ReadmeUrl(ReadmeUser, r, i)
                    THEN ReadmeAnswers(CHOOSE i \in 1..Len(README_FILES) :
                                         \E r \in RepoNames : x = ReadmeUrl(ReadmeUser, r, i))
                    ELSE {}],
    netdelay |-> {0},
    jitter |-> {0},
    maxcalls |-> Len(README_FILES) ]

ReadmeNext ==
  \/ \E r \in RepoNames : GetReadmeContent(1, ReadmeUser, r)
  \/ ReadmeStep(1)
  \/ Request(1, ReadmeEnv)

ReadmeSpec == Init /\ [][ReadmeNext]_vars

\* The candidate answered by log entry e decodes.
Decodes(e) == e.st = "200" /\ e.kind = "dict" /\ e.content \in {"text", "markup"}
\* get_readme_content of caller c has ended after requesting candidates.
ReadmeEnded(c) == ProcIdle(c) /\ hist[c].last.op = "readme" /\ NetCalls(c) >= 1
                    /\ hist[c].last.calls = NetCalls(c)

\* C26: get_readme_content requests the candidates in the order of
\* README_FILES; a candidate that is absent, has no content field or does not
\* decode is followed by the next one; the first candidate that decodes ends
\* the requests and its content is the result; the absence marker is
\* returned, and nothing is cached, only when all five candidates failed.
C26_FirstReadableCandidate ==
  \A c \in Callers :
    ReadmeEnded(c) =>
      LET r == hist[c].last
          log == netlog[c]
      IN /\ \A i \in 1..Len(log) : log[i].url = ReadmeUrl(r.user, r.repo, i)
         /\ \A i \in 1..(Len(log) - 1) : ~Decodes(log[i])
         /\ ~r.raised
         /\ IF Decodes(LastAnswer(log))
              THEN r.v # NotFoundMessage /\ ReadmeKey(r.user, r.repo) \in DOMAIN cache
              ELSE /\ Len(log) = Len(README_FILES)
                   /\ r.v = NotFoundMessage
                   /\ ReadmeKey(r.user, r.repo) \notin DOMAIN cache

\* ------------------------------------------------------------ the check before each request
\* Caller c calls session.get in this step.
Sent(c) == At(c, "send") /\ stack'[c] # <<>> /\ stack'[c][Len(stack'[c])].pc = "recv"

\* C27: every network call is preceded by its own _check_rate_limit(): the
\* activation that calls session.get (a first attempt, a retry, a pagination
\* follow-up or a resend after a rate-limit 403) has called
\* _check_rate_limit since its previous session.get, and while the network
\* call is under way that check is used up.
C27_CheckBeforeEachRequest ==
  /\ [][ \A c \in Callers : Sent(c) => Top(c).checked ]_vars
  /\ [](\A c \in Callers : At(c, "recv") => ~Top(c).checked)

\* The three network calls of a call were a first attempt answered by a
\* rate-limit 403, the resend answered by a page with a next link, and the
\* follow-up request.
C27_Witness ==
  /\ NetCalls(1) = 3
  /\ RateLimited(netlog[1][1])
  /\ HasNext(netlog[1][2])
  /\ sleeps[1].ratelimit = 1
  /\ Len(stack[1]) <= 3

\* ------------------------------------------------------------ RetrySpec
\* The decorator retry(max_retries, delay, backoff) around a function that
\* raises an Exception on its first k calls and returns v afterwards.
RetryArgs ==
  { [max_retries |-> m, delay |-> d, backoff |-> b, k |-> k, v |-> v] :
      m \in 1..MaxRetriesArg, d \in {1, 3}, b \in {1, 2}, k \in 0..(MaxRetriesArg + 1),
      v \in {None, Str("v")} }

\* wrapper starts: retries = 0, current_delay = delay.
RetryStart(a) ==
  [t |-> "pending", v |-> None, pc |-> "while", retries |-> 0, current_delay |-> a.delay,
   calls |-> 0, sleeps |-> <<>>]

RetryInit ==
  /\ NewProcessor
  /\ \E a \in RetryArgs :
       fcall = [fn |-> "retry", args |-> a, username |-> "", out |-> RetryStart(a)]

RetryAt(pc) == fcall.fn = "retry" /\ fcall.out.t = "pending" /\ fcall.out.pc = pc
RetryFrame == <<now, rate_limit, last_request_time, net, stack, sig, netlog, sleeps,
                cache, lru, proc, hist, gcf, called, nops>>

\* A test that lets one more attempt through.
RetriesExhaustedLate(retries, max_retries) == retries > max_retries
\* if retries >= max_retries: raise
RetriesExhausted(retries, max_retries) == retries >= max_retries

\* while retries < max_retries; after the loop: return None.
WrapperWhile ==
  /\ RetryAt("while")
  /\ fcall' = IF fcall.out.retries < fcall.args.max_retries
                THEN [fcall EXCEPT !.out.pc = "call"]
                ELSE [fcall EXCEPT !.out.t = "ret", !.out.v = None]
  /\ UNCHANGED RetryFrame

\* return func(*args, **kwargs), or the except clause up to the raise.
WrapperTry ==
  /\ RetryAt("call")
  /\ LET o == fcall.out
         calls == o.calls + 1
         retries == o.retries + 1
     IN fcall' =
          IF calls > fcall.args.k
            THEN [fcall EXCEPT !.out.calls = calls, !.out.t = "ret", !.out.v = fcall.args.v]
          ELSE IF RetriesExhausted(retries, fcall.args.max_retries)
            THEN [fcall EXCEPT !.out.calls = calls, !.out.retries = retries, !.out.t = "exc"]
            ELSE [fcall EXCEPT !.out.calls = calls, !.out.retries = retries, !.out.pc = "sleep"]
  /\ UNCHANGED RetryFrame

\* time.sleep(current_delay); current_delay *= backoff
WrapperSleep ==
  /\ RetryAt("sleep")
  /\ fcall' = [fcall EXCEPT !.out.sleeps = Append(@, fcall.out.current_delay),
                            !.out.current_delay = @ * fcall.args.backoff,
                            !.out.pc = "while"]
  /\ UNCHANGED RetryFrame

RetryNext == WrapperWhile \/ WrapperTry \/ WrapperSleep

RetrySpec == RetryInit /\ [][RetryNext]_vars

RetryDone == fcall.fn = "retry" /\ fcall.out.t \in {"ret", "exc"}

RECURSIVE Pow(_, _)
Pow(b, n) == IF n = 0 THEN 1 ELSE b * Pow(b, n - 1)
\* The sleeps d, d*b, ..., d*b^(n-1).
BackoffSleeps(d, b, n) == [i \in 1..n |-> d * Pow(b, i - 1)]

\* C28: around a function that raises on its first k calls and then returns
\* v, the wrapper of retry(max_retries = m, delay = d, backoff = b) returns v
\* after k + 1 calls and k sleeps d, d*b, ... when k < m, and makes m calls
\* and m - 1 sleeps and then raises when k >= m; it does not sleep after the
\* last failed attempt and exhaustion never yields None.
C28_RetryCallsAndSleeps ==
  /\ RetryDone =>
       LET a == fcall.args
           o == fcall.out
       IN IF a.k < a.max_retries
            THEN /\ o.t = "ret"
                 /\ o.v = a.v
                 /\ o.calls = a.k + 1
                 /\ o.sleeps = BackoffSleeps(a.delay, a.backoff, a.k)
            ELSE /\ o.t = "exc"
                 /\ o.calls = a.max_retries
                 /\ o.sleeps = BackoffSleeps(a.delay, a.backoff, a.max_retries - 1)
  /\ RetryAt("sleep") => fcall.out.calls < fcall.args.max_retries

\* Three attempts failed: two sleeps of 3 and 6, then the exception.
C28_Witness ==
  /\ RetryDone
  /\ fcall.args.max_retries = 3
  /\ fcall.args.k >= 3
  /\ fcall.args.delay = 3
  /\ fcall.args.backoff = 2
  /\ fcall.out.t = "exc"
  /\ fcall.out.calls = 3
  /\ fcall.out.sleeps = <<3, 6>>

\* ------------------------------------------------------------ InfoSpec
\* get_user_repo_info(username) on a fresh processor. The server holds a
\* repository record and an event record for each item of a page: a
\* repository that has a score or one without 'has_wiki' (KeyError), an
\* event that counts or one whose created_at is null (AttributeError).
InfoUser == UserList[1]
InfoRepo == [name |-> "x", readme |-> "missing", has_wiki |-> "true", description |-> "text",
             pushed |-> Absent, stars |-> Absent, forks |-> Absent, size |-> Absent]
InfoRepoItems == { InfoRepo, [InfoRepo EXCEPT !.has_wiki = "missing"] }
InfoEvent == [created_at |-> Date(5, 0, FALSE), type |-> "PushEvent", repo |-> "r"]
InfoEvents == { InfoEvent, [InfoEvent EXCEPT !.created_at = [kind |-> "null", t |-> 0, aware |-> FALSE]] }
InfoData == [repos : [1..MaxPageLen -> InfoRepoItems], events : [1..MaxPageLen -> InfoEvents]]

\* The record behind each item of a page, by the item's place on the page.
ItemIndex(id) == ((id - 1) % (MaxPageLen + 1)) + 1
RecordsOf(items, data) == [j \in 1..Len(items) |-> data[ItemIndex(items[j])]]

InfoAnswers(x) ==
  IF x = UserUrl(InfoUser)
    THEN { Answer(st, FALSE, "dict", 1, NoLink, NoHdr) : st \in {"timeout", "404", "200"} }
  ELSE IF x = ReposUrl(InfoUser)
    THEN { Answer("404", FALSE, "dict", 1, NoLink, NoHdr) }
           \cup { Answer("200", FALSE, "list", n, NoLink, NoHdr) : n \in 0..MaxPageLen }
  ELSE IF x = EventsUrl(InfoUser)
    THEN { Answer("timeout", FALSE, "bad", 0, NoLink, NoHdr) }
           \cup { Answer("200", FALSE, "list", n, NoLink, NoHdr) : n \in 0..MaxPageLen }
  ELSE IF \E r \in RepoNames : x = ReadmeUrl(InfoUser, r, 1)
    THEN { Answer("404", FALSE, "dict", 1, NoLink, NoHdr) }
           \cup { [Answer("200", FALSE, "dict", 1, NoLink, NoHdr) EXCEPT !.content = k] :
                    k \in {"text", "nonascii"} }
  ELSE { Answer("404", FALSE, "dict", 1, NoLink, NoHdr) }
InfoEnv ==
  [ answers |-> [x \in EndpointUrls |-> InfoAnswers(x)],
    netdelay |-> {0},
    jitter |-> {0},
    maxcalls |-> Len(README_FILES) ]

UserNotFoundMessage == Str("user not found or private")
NoReposMessage == Str("no public repositories")
NoBestMessage == Str("no suitable repository")
ErrorMessage == Str("processing error")

\* The locals of get_user_repo_info; exc tells that the except clause ran.
InfoStart ==
  [t |-> "pending", pc |-> "user", exc |-> FALSE, user_data |-> None, repos_data |-> None,
   personal_repo |-> "", readme_content |-> None, events |-> None, result |-> <<>>]

InfoInit ==
  /\ NewProcessor
  /\ \E d \in InfoData :
       fcall = [fn |-> "get_user_repo_info", args |-> d, username |-> "a", out |-> InfoStart]

InfoAt(pc) == fcall.fn = "get_user_repo_info" /\ fcall.out.t = "pending" /\ fcall.out.pc = pc
PcIndex(pc) == CHOOSE i \in 1..Len(InfoFetches) : InfoFetches[i] = pc

\* return ... from the try block
InfoReturn(o, res) == [o EXCEPT !.t = "ret", !.result = res]
\* except Exception as e: return None, f"...{e}", None, None
InfoError(o) == [o EXCEPT !.t = "ret", !.exc = TRUE, !.result = <<None, ErrorMessage, None, None>>]

\* A summary for every events result, the absent and the empty one included.
InfoActivityAlways(events, data) ==
  LET a == AnalyzeActivity(RecordsOf(events.items, data))
  IN IF a.t = "exc" THEN [t |-> "exc", v |-> None] ELSE [t |-> "ret", v |-> a]

\* activity_data = self.analyze_activity(events) if events else None
InfoActivity(events, data) ==
  IF Truthy(events)
    THEN LET a == AnalyzeActivity(RecordsOf(events.items, data))
         IN IF a.t = "exc" THEN [t |-> "exc", v |-> None] ELSE [t |-> "ret", v |-> a]
    ELSE [t |-> "ret", v |-> None]

\* The four calls, each at its place in the function.
InfoCallUser == InfoAt("user") /\ nops = 0 /\ GetUserInfo(1, InfoUser)
InfoCallRepos == InfoAt("repos") /\ nops = 1 /\ GetUserRepos(1, InfoUser)
InfoCallReadme ==
  InfoAt("readme") /\ nops = 2 /\ \E r \in RepoNames : GetReadmeContent(1, InfoUser, r)
InfoCallEvents == InfoAt("events") /\ nops = 3 /\ GetUserEvents(1, InfoUser, "6")

\* The call at pc has ended: the statements up to the next call or return.
InfoAfter ==
  /\ fcall.fn = "get_user_repo_info"
  /\ fcall.out.t = "pending"
  /\ ProcIdle(1)
  /\ nops = PcIndex(fcall.out.pc)
  /\ LET o == fcall.out
         r == hist[1].last
         recs == RecordsOf(r.v.items, fcall.args.repos)
         best == FindBestRepo(recs, fcall.username)
         activity == InfoActivity(r.v, fcall.args.events)
     IN fcall' = [fcall EXCEPT !.out =
          IF r.raised THEN InfoError(o)
          ELSE CASE o.pc = "user" ->
                      IF ~Truthy(r.v)
                        THEN InfoReturn([o EXCEPT !.user_data = r.v],
                                        <<None, UserNotFoundMessage, None, None>>)
                        ELSE [o EXCEPT !.user_data = r.v, !.pc = "repos"]
                 [] o.pc = "repos" ->
                      IF ~Truthy(r.v)
                        THEN InfoReturn([o EXCEPT !.repos_data = r.v],
                                        <<o.user_data, NoReposMessage, None, None>>)
                      ELSE IF best.t = "exc" THEN InfoError([o EXCEPT !.repos_data = r.v])
                      ELSE IF best.idx = 0
                        THEN InfoReturn([o EXCEPT !.repos_data = r.v],
                                        <<o.user_data, NoBestMessage, None, None>>)
                        ELSE [o EXCEPT !.repos_data = r.v, !.personal_repo = recs[best.idx].name,
                                       !.pc = "readme"]
                 [] o.pc = "readme" -> [o EXCEPT !.readme_content = r.v, !.pc = "events"]
                 [] o.pc = "events" ->
                      IF activity.t = "exc" THEN InfoError([o EXCEPT !.events = r.v])
                      ELSE InfoReturn([o EXCEPT !.events = r.v],
                                      <<o.user_data, o.readme_content, Str(o.personal_repo),
                                        activity.v>>)]
  /\ UNCHANGED <<now, rate_limit, last_request_time, net, stack, sig, netlog, sleeps,
                 cache, lru, proc, hist, gcf, called, nops>>

InfoNext ==
  \/ InfoCallUser
  \/ InfoCallRepos
  \/ InfoCallReadme
  \/ InfoCallEvents
  \/ InfoAfter
  \/ FinishFetch(1)
  \/ ReadmeStep(1)
  \/ Request(1, InfoEnv)

InfoSpec == InfoInit /\ [][InfoNext]_vars

InfoDone == fcall.fn = "get_user_repo_info" /\ fcall.out.t = "ret"
\* The fetch operations begun so far.
OpsBegun == { s[1] : s \in called.sigs }

\* C29: get_user_repo_info calls user info, repositories, README and events
\* in this order; an absent user ends it with (None, message, None, None)
\* after the user request alone; an absent or empty repository list ends it
\* before any README or events request; in a full result the activity summary
\* is None exactly when the events result is absent or empty; and an
\* exception raised inside ends it with (None, error message, None, None).
C29_StepsInOrder ==
  /\ fcall.fn = "get_user_repo_info" => OpsBegun = { InfoFetches[i] : i \in 1..nops }
  /\ InfoDone =>
       LET o == fcall.out
           res == o.result
       IN /\ o.exc => res = <<None, ErrorMessage, None, None>>
          /\ ~o.exc =>
               /\ ~Truthy(o.user_data) =>
                    (res = <<None, UserNotFoundMessage, None, None>> /\ nops = 1)
               /\ (Truthy(o.user_data) /\ ~Truthy(o.repos_data)) =>
                    (nops = 2 /\ res[1] = o.user_data /\ res[3] = None /\ res[4] = None)
               /\ (Truthy(o.user_data) /\ Truthy(o.repos_data)) =>
                    /\ nops = 4
                    /\ res[1] = o.user_data
                    /\ res[2] = o.readme_content
                    /\ (res[4] = None) <=> ~Truthy(o.events)

\* A full result: a user, a best repository, its README and a summary of
\* the events.
C29_Witness ==
  /\ InfoDone
  /\ ~fcall.out.exc
  /\ nops = 4
  /\ Truthy(fcall.out.events)
  /\ fcall.out.result[3] = Str("x")
  /\ fcall.out.result[4] # None
  /\ fcall.out.result[4].total_events = Len(fcall.out.events.items)

====
